---- MODULE Spec2Model ----
(***************************************************************************)
(* Model of the optimized YouTube playlist downloader                      *)
(* (src/youtube_downloader_optimized.py): the video list, the VideoItem    *)
(* objects, the analysis threads, the "download all" threads with the      *)
(* progress hook, the control surface (pause / resume / cancel) and the    *)
(* Tk event queue that carries root.after callbacks to the UI thread.      *)
(*                                                                         *)
(* Threads interleave between any two accesses to shared data, so each     *)
(* action of a thread holds at most one access to a field another thread   *)
(* writes; statements that touch only thread-local data or UI-only         *)
(* widgets are folded into the neighbouring step.                          *)
(*                                                                         *)
(* The module also holds the configuration file (load_config, save_config, *)
(* with json.dump and json.load on the path) and the simple variant        *)
(* (src/youtube_downloader.py): its download_playlist thread, its          *)
(* is_downloading guard and its status label.                              *)
(***************************************************************************)
EXTENDS Integers, Sequences, FiniteSets, TLC

VARIABLES
    videos,            \* self.videos: the list, as a sequence of object addresses
    heap,              \* every VideoItem object ever created, by address
    tree,              \* self.videos_tree: the iids of its rows, in order
    dl,                \* the _download_all_videos_thread threads
    an,                \* the _analyze_playlist_thread threads
    ui,                \* the UI thread: the handler it is executing
    uiq,               \* callbacks queued with root.after(0, ...)
    overall_progress,  \* self.overall_progress widget value
    btn,               \* state of download_all_btn, pause_all_btn, cancel_all_btn
    errors,            \* number of error dialogs shown by _handle_analysis_error
    raises,            \* test double: list positions whose download is mocked to raise
    app,               \* the application instance: closed, started (__init__ has loaded
                       \* the configuration), running (mainloop) or crashed
    download_path,     \* self.download_path
    config_file,       \* the file downloader_config.json
    console,           \* the error messages the instance has printed
    is_downloading,    \* simple variant: self.is_downloading
    current_download,  \* simple variant: the download_playlist thread
    status_label       \* simple variant: the text of self.status_label

\* the state of the playlist window of the optimized variant
listvars == <<videos, heap, tree, dl, an, ui, uiq, overall_progress, btn, errors, raises>>

\* the instance and its configuration
configvars == <<app, download_path, config_file, console>>

\* the state of the simple variant's window
simplevars == <<is_downloading, current_download, status_label>>

vars == <<listvars, configvars, simplevars>>

----------------------------------------------------------------------------
(* Bounds of the model *)

MaxVideos == 2      \* entries of a playlist / items of the list
MaxThreads == 2     \* "Download All" presses (download threads started)
MaxAnalyses == 2    \* "Analyze" presses (analysis threads started)
MaxEvents == 2      \* progress-hook invocations within one download call
MaxBytes == 1       \* bytes a "downloading" event reports as downloaded
MaxCtl == 2         \* control-surface operations (double-click, Pause All, Cancel All)

----------------------------------------------------------------------------
(* VideoItem *)

Statuses == {"pending", "downloading", "paused", "completed", "failed", "cancelled"}

IdOf(k) == "v" \o ToString(k)

\* mutant: a new item starts with a status outside the six
VideoItem_queued(video_id) ==
    [id |-> video_id, progress |-> 0, status |-> "queued", speed |-> "", eta |-> "",
     filesize |-> 0, downloaded_bytes |-> 0, error_message |-> "",
     output_filename |-> "", is_paused |-> FALSE, is_cancelled |-> FALSE]

VideoItem(video_id) ==
    [id |-> video_id, progress |-> 0, status |-> "pending", speed |-> "", eta |-> "",
     filesize |-> 0, downloaded_bytes |-> 0, error_message |-> "",
     output_filename |-> "", is_paused |-> FALSE, is_cancelled |-> FALSE]

\* heap with field f of object a set to v
Store(a, f, v) == [heap EXCEPT ![a] = [@ EXCEPT ![f] = v]]

----------------------------------------------------------------------------
(* The download capability's callback events (the dict d of the hook) *)

\* size of the file being downloaded; 0 stands for a total the event does not know
FileSize == MaxBytes + 1

DownloadingEvents ==
    [status : {"downloading"}, downloaded_bytes : 1..MaxBytes,
     total_bytes : {0, FileSize}, total_bytes_estimate : {0, FileSize},
     filename : {""}]

FinishedEvents ==
    [status : {"finished"}, downloaded_bytes : {FileSize},
     total_bytes : {FileSize}, total_bytes_estimate : {0}, filename : {"out.mp4"}]

Events == DownloadingEvents \cup FinishedEvents

NoEvent == [status |-> "none"]

\* (video_item.downloaded_bytes / video_item.filesize) * 100, in whole percent
Percent(part, whole) == (part * 100) \div whole

----------------------------------------------------------------------------
(* Download threads *)

Threads == 1..MaxThreads

IdleThread ==
    [pc |-> "none", total_videos |-> 0, completed |-> 0, it |-> 0, video |-> 0,
     d |-> NoEvent, n |-> 0, fin |-> FALSE, exc |-> "", handed |-> <<>>]

\* the thread is inside ydl.download([video_item.url]) (line 414)
InDownload(t) == dl[t].pc \in {"lib", "h423", "h426", "h429"}

\* the thread is inside download_single_video (lines 391-419)
InSingle(t) == dl[t].pc \in {"s394", "s395", "s396", "lib", "h423", "h426", "h429", "e417", "e418"}

Post(cb) == uiq' = Append(uiq, cb)


----------------------------------------------------------------------------
(* download_all_videos, lines 355-367 (UI thread) *)

download_all_videos ==
    /\ ui.pc = "idle"
    /\ btn.download_all = "normal"
    /\ \E t \in Threads :
        /\ dl[t].pc = "none"
        /\ \A s \in 1..(t - 1) : dl[s].pc # "none"
        /\ IF videos = <<>>
           THEN UNCHANGED <<dl, btn>>
           ELSE /\ btn' = [btn EXCEPT !.pause_all = "normal", !.cancel_all = "normal"]
                /\ dl' = [dl EXCEPT ![t] = [IdleThread EXCEPT !.pc = "len"]]
    /\ UNCHANGED <<videos, heap, tree, an, ui, uiq, overall_progress, errors, raises, configvars, simplevars>>

----------------------------------------------------------------------------
(* _download_all_videos_thread, lines 369-389 *)

\* line 371: total_videos = len(self.videos); line 372: completed = 0
download_thread_371(t) ==
    /\ dl[t].pc = "len"
    /\ dl' = [dl EXCEPT ![t] = [@ EXCEPT !.total_videos = Len(videos), !.completed = 0,
                                         !.pc = "next"]]
    /\ UNCHANGED <<videos, heap, tree, an, ui, uiq, overall_progress, btn, errors, raises, configvars, simplevars>>

\* line 374: the list iterator of "for video in self.videos" takes its next item
download_thread_374(t) ==
    /\ dl[t].pc = "next"
    /\ dl' = [dl EXCEPT ![t] =
                IF @.it < Len(videos)
                THEN [@ EXCEPT !.video = videos[dl[t].it + 1], !.it = @ + 1, !.pc = "chk375"]
                ELSE [@ EXCEPT !.video = 0, !.pc = "end"]]
    /\ UNCHANGED <<videos, heap, tree, an, ui, uiq, overall_progress, btn, errors, raises, configvars, simplevars>>

\* mutant: only a completed item is skipped, a failed one is downloaded again
download_thread_375_retry(t) ==
    /\ dl[t].pc = "chk375"
    /\ dl' = [dl EXCEPT ![t] =
                IF heap[@.video].status = "completed"
                THEN [@ EXCEPT !.pc = "next"]
                ELSE [@ EXCEPT !.pc = "s394"]]
    /\ UNCHANGED <<videos, heap, tree, an, ui, uiq, overall_progress, btn, errors, raises, configvars, simplevars>>

\* lines 375-376: skip a completed or failed item; line 380: call download_single_video
download_thread_375(t) ==
    /\ dl[t].pc = "chk375"
    /\ dl' = [dl EXCEPT ![t] =
                IF heap[@.video].status \in {"completed", "failed"}
                THEN [@ EXCEPT !.pc = "next"]
                ELSE [@ EXCEPT !.pc = "s394"]]
    /\ UNCHANGED <<videos, heap, tree, an, ui, uiq, overall_progress, btn, errors, raises, configvars, simplevars>>

\* mutant: the progress is computed before the item is counted
download_thread_382_late(t) ==
    /\ dl[t].pc = "c382"
    /\ IF heap[dl[t].video].status = "completed"
       THEN IF dl[t].total_videos = 0
            THEN /\ dl' = [dl EXCEPT ![t] = [@ EXCEPT !.pc = "crashed"]]
                 /\ UNCHANGED uiq
            ELSE /\ dl' = [dl EXCEPT ![t] = [@ EXCEPT !.completed = @ + 1, !.pc = "next"]]
                 /\ Post(<<"overall", Percent(dl[t].completed, dl[t].total_videos)>>)
       ELSE /\ dl' = [dl EXCEPT ![t] = [@ EXCEPT !.pc = "next"]]
            /\ UNCHANGED uiq
    /\ UNCHANGED <<videos, heap, tree, an, ui, overall_progress, btn, errors, raises, configvars, simplevars>>

\* lines 382-385: count a completed item and post the overall progress;
\* completed / total_videos raises ZeroDivisionError when the list was empty at
\* line 371, which ends the thread
download_thread_382(t) ==
    /\ dl[t].pc = "c382"
    /\ IF heap[dl[t].video].status = "completed"
       THEN IF dl[t].total_videos = 0
            THEN /\ dl' = [dl EXCEPT ![t] = [@ EXCEPT !.pc = "crashed"]]
                 /\ UNCHANGED uiq
            ELSE /\ dl' = [dl EXCEPT ![t] = [@ EXCEPT !.completed = @ + 1, !.pc = "next"]]
                 /\ Post(<<"overall", Percent(dl[t].completed + 1, dl[t].total_videos)>>)
       ELSE /\ dl' = [dl EXCEPT ![t] = [@ EXCEPT !.pc = "next"]]
            /\ UNCHANGED uiq
    /\ UNCHANGED <<videos, heap, tree, an, ui, overall_progress, btn, errors, raises, configvars, simplevars>>

\* lines 387-389: after the loop, post the final label and the disabling of the
\* Pause All and Cancel All buttons
download_thread_387(t) ==
    /\ dl[t].pc = "end"
    /\ dl' = [dl EXCEPT ![t] = [@ EXCEPT !.pc = "done"]]
    /\ Post(<<"loop_end", 0>>)
    /\ UNCHANGED <<videos, heap, tree, an, ui, overall_progress, btn, errors, raises, configvars, simplevars>>

----------------------------------------------------------------------------
(* download_single_video, lines 391-419 *)

\* line 394: video_item.status = "downloading"
download_single_video_394(t) ==
    /\ dl[t].pc = "s394"
    /\ heap' = Store(dl[t].video, "status", "downloading")
    /\ dl' = [dl EXCEPT ![t] = [@ EXCEPT !.pc = "s395"]]
    /\ UNCHANGED <<videos, tree, an, ui, uiq, overall_progress, btn, errors, raises, configvars, simplevars>>

\* line 395: video_item.is_cancelled = False
download_single_video_395(t) ==
    /\ dl[t].pc = "s395"
    /\ heap' = Store(dl[t].video, "is_cancelled", FALSE)
    /\ dl' = [dl EXCEPT ![t] = [@ EXCEPT !.pc = "s396"]]
    /\ UNCHANGED <<videos, tree, an, ui, uiq, overall_progress, btn, errors, raises, configvars, simplevars>>

\* line 396: video_item.is_paused = False; lines 398-414: build the options and
\* enter ydl.download([video_item.url])
download_single_video_396(t) ==
    /\ dl[t].pc = "s396"
    /\ heap' = Store(dl[t].video, "is_paused", FALSE)
    /\ dl' = [dl EXCEPT ![t] = [@ EXCEPT !.pc = "lib", !.n = 0, !.fin = FALSE, !.exc = "",
                                         !.d = NoEvent,
                                         !.handed = Append(@, dl[t].video)]]
    /\ UNCHANGED <<videos, tree, an, ui, uiq, overall_progress, btn, errors, raises, configvars, simplevars>>

\* line 417: except Exception: video_item.status = "failed"
download_single_video_417(t) ==
    /\ dl[t].pc = "e417"
    /\ heap' = Store(dl[t].video, "status", "failed")
    /\ dl' = [dl EXCEPT ![t] = [@ EXCEPT !.pc = "e418"]]
    /\ UNCHANGED <<videos, tree, an, ui, uiq, overall_progress, btn, errors, raises, configvars, simplevars>>

\* mutant: the exception ends the loop instead of the item
download_single_video_418_abort(t) ==
    /\ dl[t].pc = "e418"
    /\ heap' = Store(dl[t].video, "error_message", dl[t].exc)
    /\ dl' = [dl EXCEPT ![t] = [@ EXCEPT !.pc = "end"]]
    /\ UNCHANGED <<videos, tree, an, ui, uiq, overall_progress, btn, errors, raises, configvars, simplevars>>

\* line 418: video_item.error_message = str(e); the function returns
download_single_video_418(t) ==
    /\ dl[t].pc = "e418"
    /\ heap' = Store(dl[t].video, "error_message", dl[t].exc)
    /\ dl' = [dl EXCEPT ![t] = [@ EXCEPT !.pc = "c382"]]
    /\ UNCHANGED <<videos, tree, an, ui, uiq, overall_progress, btn, errors, raises, configvars, simplevars>>

----------------------------------------------------------------------------
(* The download capability, ydl.download at line 414: it invokes the progress
   hook with a "downloading" or "finished" event any number of times, then
   returns (after it reported "finished") or raises *)

ydl_download_hook(t, ev) ==
    /\ dl[t].pc = "lib"
    /\ dl[t].n < MaxEvents
    /\ dl' = [dl EXCEPT ![t] = [@ EXCEPT !.pc = "h423", !.d = ev, !.n = @ + 1]]
    /\ UNCHANGED <<videos, heap, tree, an, ui, uiq, overall_progress, btn, errors, raises, configvars, simplevars>>

ydl_download_return(t) ==
    /\ dl[t].pc = "lib"
    /\ dl[t].fin
    /\ dl' = [dl EXCEPT ![t] = [@ EXCEPT !.pc = "c382", !.d = NoEvent]]
    /\ UNCHANGED <<videos, heap, tree, an, ui, uiq, overall_progress, btn, errors, raises, configvars, simplevars>>

ydl_download_raise(t) ==
    /\ dl[t].pc = "lib"
    /\ dl' = [dl EXCEPT ![t] = [@ EXCEPT !.pc = "e417", !.exc = "download error",
                                         !.d = NoEvent]]
    /\ UNCHANGED <<videos, heap, tree, an, ui, uiq, overall_progress, btn, errors, raises, configvars, simplevars>>

----------------------------------------------------------------------------
(* video_progress_hook, lines 421-445 *)

\* lines 423-424: if video_item.is_cancelled: raise Exception("Download cancelled");
\* the exception leaves ydl.download and reaches the except clause of line 416
video_progress_hook_423(t) ==
    /\ dl[t].pc = "h423"
    /\ dl' = [dl EXCEPT ![t] =
                IF heap[@.video].is_cancelled
                THEN [@ EXCEPT !.pc = "e417", !.exc = "Download cancelled", !.d = NoEvent]
                ELSE [@ EXCEPT !.pc = "h426"]]
    /\ UNCHANGED <<videos, heap, tree, an, ui, uiq, overall_progress, btn, errors, raises, configvars, simplevars>>

\* mutant: the hook does not wait on the pause flag
video_progress_hook_426_nowait(t) ==
    /\ dl[t].pc = "h426"
    /\ dl' = [dl EXCEPT ![t] = [@ EXCEPT !.pc = "h429"]]
    /\ UNCHANGED <<videos, heap, tree, an, ui, uiq, overall_progress, btn, errors, raises, configvars, simplevars>>

\* lines 426-427: while video_item.is_paused: time.sleep(0.1)
video_progress_hook_426(t) ==
    /\ dl[t].pc = "h426"
    /\ dl' = [dl EXCEPT ![t] =
                IF heap[@.video].is_paused
                THEN @
                ELSE [@ EXCEPT !.pc = "h429"]]
    /\ UNCHANGED <<videos, heap, tree, an, ui, uiq, overall_progress, btn, errors, raises, configvars, simplevars>>

\* d.get('total_bytes', 0) or d.get('total_bytes_estimate', 0)
TotalBytes(d) == IF d.total_bytes # 0 THEN d.total_bytes ELSE d.total_bytes_estimate

\* mutant: an unknown total resets the progress
OnDownloading_reset(v, d) ==
    LET size == TotalBytes(d)
    IN  [v EXCEPT !.downloaded_bytes = d.downloaded_bytes,
                  !.filesize = size,
                  !.speed = "1.0MiB/s",
                  !.eta = "00:01",
                  !.progress = IF size > 0 THEN Percent(d.downloaded_bytes, size) ELSE 0]

\* lines 429-436: the item after a "downloading" event
OnDownloading(v, d) ==
    LET size == TotalBytes(d)
    IN  [v EXCEPT !.downloaded_bytes = d.downloaded_bytes,
                  !.filesize = size,
                  !.speed = "1.0MiB/s",
                  !.eta = "00:01",
                  !.progress = IF size > 0 THEN Percent(d.downloaded_bytes, size) ELSE @]

\* mutant: a "finished" event that leaves the progress where the last
\* "downloading" event put it
OnFinished_keep(v, d) ==
    [v EXCEPT !.status = "completed", !.output_filename = d.filename]

\* lines 441-444: the item after a "finished" event
OnFinished(v, d) ==
    [v EXCEPT !.status = "completed", !.progress = 100, !.output_filename = d.filename]

\* lines 429-445: apply the event; the row refresh posted at lines 439 and 445
\* changes only the row's displayed values
video_progress_hook_429(t) ==
    /\ dl[t].pc = "h429"
    /\ LET a == dl[t].video
           d == dl[t].d
       IN  heap' = [heap EXCEPT ![a] =
                      IF d.status = "downloading" THEN OnDownloading(@, d)
                      ELSE IF d.status = "finished" THEN OnFinished(@, d)
                      ELSE @]
    /\ dl' = [dl EXCEPT ![t] = [@ EXCEPT !.pc = "lib", !.d = NoEvent,
                                         !.fin = @ \/ dl[t].d.status = "finished"]]
    /\ UNCHANGED <<videos, tree, an, ui, uiq, overall_progress, btn, errors, raises, configvars, simplevars>>


----------------------------------------------------------------------------
(* The UI thread.  One handler runs at a time; ui.pc is the place it has
   reached, ui.ret the loop it returns to, ui.ops the number of control
   operations the user has started *)

IdleUi(ops) == [pc |-> "idle", ret |-> "idle", i |-> 0, video |-> 0, info |-> NoEvent, ops |-> ops]

RowExists(a) == \E k \in 1..Len(tree) : tree[k] = heap[a].id

\* the first item of self.videos whose id is iid, 0 when there is none (line 464)
FindVideo(iid) ==
    IF \E k \in 1..Len(videos) : heap[videos[k]].id = iid
    THEN videos[CHOOSE k \in 1..Len(videos) :
                    /\ heap[videos[k]].id = iid
                    /\ \A j \in 1..(k - 1) : heap[videos[j]].id # iid]
    ELSE 0

\* on_video_double_click, lines 460-464: the row under the pointer and its item
on_video_double_click ==
    /\ ui.pc = "idle"
    /\ ui.ops < MaxCtl
    /\ \E r \in 1..Len(tree) :
         LET video == FindVideo(tree[r])
         IN  ui' = IF video = 0
                   THEN [ui EXCEPT !.ops = @ + 1]
                   ELSE [ui EXCEPT !.pc = "dc466", !.video = video, !.ret = "idle",
                                   !.ops = @ + 1]
    /\ UNCHANGED <<videos, heap, tree, dl, an, uiq, overall_progress, btn, errors, raises, configvars, simplevars>>

\* lines 466-469: pause a downloading item, resume a paused one
on_video_double_click_466 ==
    /\ ui.pc = "dc466"
    /\ ui' = IF heap[ui.video].status = "downloading" THEN [ui EXCEPT !.pc = "p473"]
             ELSE IF heap[ui.video].status = "paused" THEN [ui EXCEPT !.pc = "r480"]
             ELSE IdleUi(ui.ops)
    /\ UNCHANGED <<videos, heap, tree, dl, an, uiq, overall_progress, btn, errors, raises, configvars, simplevars>>

\* where a handler called from ui.ret continues; an exception ends the handler
Return(u) == IF u.ret = "idle" THEN IdleUi(u.ops) ELSE [u EXCEPT !.pc = u.ret]

\* update_video_display, lines 447-458: videos_tree.item raises when the row is gone
AfterDisplay(u) == IF RowExists(u.video) THEN Return(u) ELSE IdleUi(u.ops)

\* pause_video, line 473: if video_item.status == "downloading"
pause_video_473 ==
    /\ ui.pc = "p473"
    /\ ui' = IF heap[ui.video].status = "downloading" THEN [ui EXCEPT !.pc = "p474"]
             ELSE Return(ui)
    /\ UNCHANGED <<videos, heap, tree, dl, an, uiq, overall_progress, btn, errors, raises, configvars, simplevars>>

\* line 474: video_item.is_paused = True
pause_video_474 ==
    /\ ui.pc = "p474"
    /\ heap' = Store(ui.video, "is_paused", TRUE)
    /\ ui' = [ui EXCEPT !.pc = "p475"]
    /\ UNCHANGED <<videos, tree, dl, an, uiq, overall_progress, btn, errors, raises, configvars, simplevars>>

\* lines 475-476: video_item.status = "paused"; update_video_display
pause_video_475 ==
    /\ ui.pc = "p475"
    /\ heap' = Store(ui.video, "status", "paused")
    /\ ui' = AfterDisplay(ui)
    /\ UNCHANGED <<videos, tree, dl, an, uiq, overall_progress, btn, errors, raises, configvars, simplevars>>

\* resume_video, line 480: if video_item.status == "paused"
resume_video_480 ==
    /\ ui.pc = "r480"
    /\ ui' = IF heap[ui.video].status = "paused" THEN [ui EXCEPT !.pc = "r481"]
             ELSE Return(ui)
    /\ UNCHANGED <<videos, heap, tree, dl, an, uiq, overall_progress, btn, errors, raises, configvars, simplevars>>

\* line 481: video_item.is_paused = False
resume_video_481 ==
    /\ ui.pc = "r481"
    /\ heap' = Store(ui.video, "is_paused", FALSE)
    /\ ui' = [ui EXCEPT !.pc = "r482"]
    /\ UNCHANGED <<videos, tree, dl, an, uiq, overall_progress, btn, errors, raises, configvars, simplevars>>

\* lines 482-483: video_item.status = "downloading"; update_video_display
resume_video_482 ==
    /\ ui.pc = "r482"
    /\ heap' = Store(ui.video, "status", "downloading")
    /\ ui' = AfterDisplay(ui)
    /\ UNCHANGED <<videos, tree, dl, an, uiq, overall_progress, btn, errors, raises, configvars, simplevars>>

\* the next item of a "for video in self.videos" loop of the UI thread
LoopNext(u, body) ==
    IF u.i < Len(videos)
    THEN [u EXCEPT !.video = videos[u.i + 1], !.i = @ + 1, !.pc = body]
    ELSE IdleUi(u.ops)

\* pause_all_downloads, lines 485-489 (the Pause All button)
pause_all_downloads ==
    /\ ui.pc = "idle"
    /\ ui.ops < MaxCtl
    /\ btn.pause_all = "normal"
    /\ ui' = [ui EXCEPT !.pc = "pa487", !.i = 0, !.ret = "pa487", !.ops = @ + 1]
    /\ UNCHANGED <<videos, heap, tree, dl, an, uiq, overall_progress, btn, errors, raises, configvars, simplevars>>

\* line 487: for video in self.videos
pause_all_downloads_487 ==
    /\ ui.pc = "pa487"
    /\ ui' = LoopNext(ui, "pa488")
    /\ UNCHANGED <<videos, heap, tree, dl, an, uiq, overall_progress, btn, errors, raises, configvars, simplevars>>

\* lines 488-489: if video.status == "downloading": self.pause_video(video)
pause_all_downloads_488 ==
    /\ ui.pc = "pa488"
    /\ ui' = IF heap[ui.video].status = "downloading" THEN [ui EXCEPT !.pc = "p473"]
             ELSE [ui EXCEPT !.pc = "pa487"]
    /\ UNCHANGED <<videos, heap, tree, dl, an, uiq, overall_progress, btn, errors, raises, configvars, simplevars>>

\* cancel_all_downloads, lines 497-503 (the Cancel All button)
cancel_all_downloads ==
    /\ ui.pc = "idle"
    /\ ui.ops < MaxCtl
    /\ btn.cancel_all = "normal"
    /\ ui' = [ui EXCEPT !.pc = "ca499", !.i = 0, !.ret = "ca499", !.ops = @ + 1]
    /\ UNCHANGED <<videos, heap, tree, dl, an, uiq, overall_progress, btn, errors, raises, configvars, simplevars>>

\* line 499: for video in self.videos
cancel_all_downloads_499 ==
    /\ ui.pc = "ca499"
    /\ ui' = LoopNext(ui, "ca500")
    /\ UNCHANGED <<videos, heap, tree, dl, an, uiq, overall_progress, btn, errors, raises, configvars, simplevars>>

\* line 500: if video.status in ["downloading", "paused"]
cancel_all_downloads_500 ==
    /\ ui.pc = "ca500"
    /\ ui' = IF heap[ui.video].status \in {"downloading", "paused"}
             THEN [ui EXCEPT !.pc = "ca501"]
             ELSE [ui EXCEPT !.pc = "ca499"]
    /\ UNCHANGED <<videos, heap, tree, dl, an, uiq, overall_progress, btn, errors, raises, configvars, simplevars>>

\* line 501: video.is_cancelled = True
cancel_all_downloads_501 ==
    /\ ui.pc = "ca501"
    /\ heap' = Store(ui.video, "is_cancelled", TRUE)
    /\ ui' = [ui EXCEPT !.pc = "ca502"]
    /\ UNCHANGED <<videos, tree, dl, an, uiq, overall_progress, btn, errors, raises, configvars, simplevars>>

\* lines 502-503: video.status = "cancelled"; update_video_display
cancel_all_downloads_502 ==
    /\ ui.pc = "ca502"
    /\ heap' = Store(ui.video, "status", "cancelled")
    /\ ui' = AfterDisplay(ui)
    /\ UNCHANGED <<videos, tree, dl, an, uiq, overall_progress, btn, errors, raises, configvars, simplevars>>

----------------------------------------------------------------------------
(* Callbacks queued with root.after(0, ...), run by the UI thread in order *)

\* line 385: self.overall_progress.config(value=p)
run_overall_progress ==
    /\ ui.pc = "idle"
    /\ uiq # <<>>
    /\ Head(uiq)[1] = "overall"
    /\ overall_progress' = Head(uiq)[2]
    /\ uiq' = Tail(uiq)
    /\ UNCHANGED <<videos, heap, tree, dl, an, ui, btn, errors, raises, configvars, simplevars>>

\* lines 387-389: the final label, pause_all_btn and cancel_all_btn disabled
run_loop_end ==
    /\ ui.pc = "idle"
    /\ uiq # <<>>
    /\ Head(uiq)[1] = "loop_end"
    /\ btn' = [btn EXCEPT !.pause_all = "disabled", !.cancel_all = "disabled"]
    /\ uiq' = Tail(uiq)
    /\ UNCHANGED <<videos, heap, tree, dl, an, ui, overall_progress, errors, raises, configvars, simplevars>>


----------------------------------------------------------------------------
(* What the extraction capability returns (ydl.extract_info, line 279) *)

\* an entry of a playlist: None, or a dict whose 'id' may be missing (id = "")
NoneEntry == [is_none |-> TRUE, id |-> ""]

Entries == {NoneEntry} \cup [is_none : {FALSE}, id : {""} \cup {IdOf(k) : k \in 1..MaxVideos}]

RECURSIVE SeqsUpTo(_, _)
SeqsUpTo(S, n) ==
    IF n = 0 THEN {<<>>}
    ELSE LET shorter == SeqsUpTo(S, n - 1)
         IN  shorter \cup {Append(q, x) : q \in {r \in shorter : Len(r) = n - 1}, x \in S}

\* None (extraction failed with ignoreerrors), a playlist, or a single video
Infos ==
    {[type |-> "none", entries |-> <<>>, id |-> ""]}
    \cup [type : {"playlist"}, entries : SeqsUpTo(Entries, MaxVideos), id : {""}]
    \cup [type : {"video"}, entries : {<<>>}, id : {"", IdOf(1)}]

----------------------------------------------------------------------------
(* Analysis threads *)

Analyses == 1..MaxAnalyses

IdleAnalysis == [pc |-> "none", info |-> NoEvent]

\* analyze_playlist, lines 240-254 (UI thread): an empty URL is refused, otherwise
\* a new analysis thread starts
analyze_playlist(url) ==
    /\ ui.pc = "idle"
    /\ \E a \in Analyses :
        /\ an[a].pc = "none"
        /\ \A b \in 1..(a - 1) : an[b].pc # "none"
        /\ IF url = ""
           THEN UNCHANGED an
           ELSE an' = [an EXCEPT ![a] = [@ EXCEPT !.pc = "extract"]]
    /\ UNCHANGED <<videos, heap, tree, dl, ui, uiq, overall_progress, btn, errors, raises, configvars, simplevars>>

\* lines 278-281: extract_info returns info; self.videos.clear() on the analysis thread
analyze_thread_281(a, info) ==
    /\ an[a].pc = "extract"
    /\ videos' = <<>>
    /\ an' = [an EXCEPT ![a] = [pc |-> "post", info |-> info]]
    /\ UNCHANGED <<heap, tree, dl, ui, uiq, overall_progress, btn, errors, raises, configvars, simplevars>>

\* line 284: root.after(0, lambda: self._process_analysis_results(info))
analyze_thread_284(a) ==
    /\ an[a].pc = "post"
    /\ Post(<<"process", an[a].info>>)
    /\ an' = [an EXCEPT ![a] = [pc |-> "done", info |-> NoEvent]]
    /\ UNCHANGED <<videos, heap, tree, dl, ui, overall_progress, btn, errors, raises, configvars, simplevars>>

\* lines 286-287: extract_info raised; root.after(0, lambda: self._handle_analysis_error(str(e)));
\* the lambda refers to the variable e of this thread's except clause
analyze_thread_287(a) ==
    /\ an[a].pc = "extract"
    /\ Post(<<"error", a>>)
    /\ an' = [an EXCEPT ![a] = [pc |-> "except", info |-> NoEvent]]
    /\ UNCHANGED <<videos, heap, tree, dl, ui, overall_progress, btn, errors, raises, configvars, simplevars>>

\* the end of the except clause of line 286 unbinds e, and the thread ends
analyze_thread_287_end(a) ==
    /\ an[a].pc = "except"
    /\ an' = [an EXCEPT ![a] = [pc |-> "done", info |-> NoEvent]]
    /\ UNCHANGED <<videos, heap, tree, dl, ui, uiq, overall_progress, btn, errors, raises, configvars, simplevars>>

----------------------------------------------------------------------------
(* _process_analysis_results, lines 289-346, and _handle_analysis_error,
   lines 348-353 (UI thread, from the queue) *)

\* mutant: entries without an id are kept
Usable_noid(entry) == ~entry.is_none

\* line 302: if video and video.get('id')
Usable(entry) == ~entry.is_none /\ entry.id # ""

\* lines 300-310: the VideoItems built from the entries, in the order of the entries
VideoList(entries) ==
    LET kept == SelectSeq(entries, Usable)
    IN  [k \in 1..Len(kept) |-> VideoItem(kept[k].id)]

\* line 326: video_id = info.get('id', '1')
SingleId(info) == IF info.id = "" THEN "1" ELSE info.id

\* addresses of the n objects allocated next
Fresh(n) == [k \in 1..n |-> Len(heap) + k]

\* mutant: the handler does not clear the list
process_analysis_results_292_noclear ==
    /\ ui.pc = "idle"
    /\ uiq # <<>>
    /\ Head(uiq)[1] = "process"
    /\ uiq' = Tail(uiq)
    /\ tree' = <<>>
    /\ LET info == Head(uiq)[2]
       IN  ui' = IF info.type = "none" THEN ui
                 ELSE IF info.type = "playlist" THEN [ui EXCEPT !.pc = "q312", !.info = info]
                 ELSE [ui EXCEPT !.pc = "q332", !.info = info]
    /\ UNCHANGED <<videos, heap, dl, an, overall_progress, btn, errors, raises, configvars, simplevars>>

\* lines 292-295: the rows are deleted and the list is cleared; info.get on None
\* raises AttributeError, which ends the handler
process_analysis_results_292 ==
    /\ ui.pc = "idle"
    /\ uiq # <<>>
    /\ Head(uiq)[1] = "process"
    /\ uiq' = Tail(uiq)
    /\ tree' = <<>>
    /\ videos' = <<>>
    /\ LET info == Head(uiq)[2]
       IN  ui' = IF info.type = "none" THEN ui
                 ELSE IF info.type = "playlist" THEN [ui EXCEPT !.pc = "q312", !.info = info]
                 ELSE [ui EXCEPT !.pc = "q332", !.info = info]
    /\ UNCHANGED <<heap, dl, an, overall_progress, btn, errors, raises, configvars, simplevars>>

\* lines 297-312: self.videos.extend(video_list)
process_analysis_results_312 ==
    /\ ui.pc = "q312"
    /\ LET video_list == VideoList(ui.info.entries)
       IN  /\ heap' = heap \o video_list
           /\ videos' = videos \o Fresh(Len(video_list))
           /\ ui' = [ui EXCEPT !.pc = "q315", !.i = Len(heap)]
    /\ UNCHANGED <<tree, dl, an, uiq, overall_progress, btn, errors, raises, configvars, simplevars>>

\* the rows after inserting the ids one by one; insert raises TclError at the
\* first id that is already a row, which keeps the rows inserted so far
RECURSIVE InsertRows(_, _)
InsertRows(rows, ids) ==
    IF ids = <<>> THEN rows
    ELSE IF \E k \in 1..Len(rows) : rows[k] = Head(ids) THEN rows
    ELSE InsertRows(Append(rows, Head(ids)), Tail(ids))

\* lines 315-341: one row per item of video_list, then download_all_btn is enabled
\* (not reached when an insert raised)
process_analysis_results_315 ==
    /\ ui.pc = "q315"
    /\ LET ids == [k \in 1..(Len(heap) - ui.i) |-> heap[ui.i + k].id]
           rows == InsertRows(tree, ids)
       IN  /\ tree' = rows
           /\ btn' = IF Len(rows) = Len(tree) + Len(ids)
                     THEN [btn EXCEPT !.download_all = "normal"]
                     ELSE btn
    /\ ui' = IdleUi(ui.ops)
    /\ UNCHANGED <<videos, heap, dl, an, uiq, overall_progress, errors, raises, configvars, simplevars>>

\* lines 325-332: the single video's item is appended
process_analysis_results_332 ==
    /\ ui.pc = "q332"
    /\ heap' = Append(heap, VideoItem(SingleId(ui.info)))
    /\ videos' = Append(videos, Len(heap) + 1)
    /\ ui' = [ui EXCEPT !.pc = "q334", !.i = Len(heap)]
    /\ UNCHANGED <<tree, dl, an, uiq, overall_progress, btn, errors, raises, configvars, simplevars>>

\* lines 334-341: its row is inserted and download_all_btn is enabled
process_analysis_results_334 ==
    /\ ui.pc = "q334"
    /\ LET rows == InsertRows(tree, <<heap[ui.i + 1].id>>)
       IN  /\ tree' = rows
           /\ btn' = IF Len(rows) = Len(tree) + 1
                     THEN [btn EXCEPT !.download_all = "normal"]
                     ELSE btn
    /\ ui' = IdleUi(ui.ops)
    /\ UNCHANGED <<videos, heap, dl, an, uiq, overall_progress, errors, raises, configvars, simplevars>>

\* the lambda of line 287, then _handle_analysis_error, lines 348-353: str(e) raises
\* NameError when the analysis thread has left its except clause, which ends the
\* callback; otherwise the error dialog is shown
handle_analysis_error ==
    /\ ui.pc = "idle"
    /\ uiq # <<>>
    /\ Head(uiq)[1] = "error"
    /\ uiq' = Tail(uiq)
    /\ errors' = IF an[Head(uiq)[2]].pc = "except" THEN errors + 1 ELSE errors
    /\ UNCHANGED <<videos, heap, tree, dl, an, ui, overall_progress, btn, raises, configvars, simplevars>>

----------------------------------------------------------------------------
(* The configuration file downloader_config.json.  A path is a sequence of
   characters, the file's text a sequence of tokens: the characters of the
   string literal, the braces, the colon and the key *)

MaxPath == 2

\* characters of a path: an ordinary one and the two that JSON escapes
PathChars == {"a", "\"", "\\"}

\* the directories filedialog.askdirectory can return (not the empty string)
Paths == SeqsUpTo(PathChars, MaxPath) \ {<<>>}

\* str(Path.home() / "Downloads"), line 54
DefaultPath == <<"~">>

NoFile == [exists |-> FALSE, text |-> <<>>]

File(text) == [exists |-> TRUE, text |-> text]

\* mutant: the characters are written without escaping
EscapeChar_raw(c) == <<c>>

\* json.dump of a character inside a string
EscapeChar(c) ==
    IF c = "\"" THEN <<"\\", "\"">>
    ELSE IF c = "\\" THEN <<"\\", "\\">>
    ELSE <<c>>

RECURSIVE Escape(_)
Escape(path) ==
    IF path = <<>> THEN <<>> ELSE EscapeChar(Head(path)) \o Escape(Tail(path))

\* json.dump({'download_path': path}, f), lines 79-81
json_dump(path) ==
    <<"{", "download_path", ":", "\"">> \o Escape(path) \o <<"\"", "}">>

\* json.load reading a string after its opening quote: the characters up to the
\* closing quote, a backslash taking the next character literally
RECURSIVE ScanString(_, _)
ScanString(text, acc) ==
    IF text = <<>> THEN [ok |-> FALSE, value |-> acc, rest |-> <<>>]
    ELSE IF Head(text) = "\"" THEN [ok |-> TRUE, value |-> acc, rest |-> Tail(text)]
    ELSE IF Head(text) = "\\"
         THEN IF Len(text) >= 2 /\ text[2] \in {"\"", "\\"}
              THEN ScanString(SubSeq(text, 3, Len(text)), Append(acc, text[2]))
              ELSE [ok |-> FALSE, value |-> acc, rest |-> <<>>]
    ELSE ScanString(Tail(text), Append(acc, Head(text)))

\* json.load(f), line 71: the object {} or {"download_path": "..."}; anything
\* else raises JSONDecodeError (ok = FALSE)
json_load(text) ==
    IF text = <<"{", "}">> THEN [ok |-> TRUE, has_key |-> FALSE, value |-> <<>>]
    ELSE IF /\ Len(text) >= 4
            /\ SubSeq(text, 1, 4) = <<"{", "download_path", ":", "\"">>
         THEN LET r == ScanString(SubSeq(text, 5, Len(text)), <<>>)
              IN  [ok |-> r.ok /\ r.rest = <<"}">>, has_key |-> TRUE, value |-> r.value]
         ELSE [ok |-> FALSE, has_key |-> FALSE, value |-> <<>>]

\* the file after a write of text that got as far as written tokens: -1 when
\* open(..., 'w') failed, Len(text) when the write succeeded
Written(text, written) ==
    IF written < 0 THEN config_file ELSE File(SubSeq(text, 1, written))

WriteOutcomes == (0 - 1)..(MaxPath * 2 + 6)

----------------------------------------------------------------------------
(* Configuration of the optimized variant: load_config, lines 66-74, and
   save_config, lines 76-83; both print the exception and go on *)

\* load_config on an instance whose download_path is path: the path and the
\* messages printed; readable = FALSE is an open() that raises
load_config(path, readable) ==
    IF ~config_file.exists THEN [download_path |-> path, printed |-> {}]
    ELSE IF ~readable
         THEN [download_path |-> path, printed |-> {"Error loading config: PermissionError"}]
    ELSE LET config == json_load(config_file.text)
         IN  IF ~config.ok
             THEN [download_path |-> path, printed |-> {"Error loading config: JSONDecodeError"}]
             ELSE [download_path |-> IF config.has_key THEN config.value ELSE path,
                   printed |-> {}]

\* save_config: the file and the messages printed
save_config(path, written) ==
    LET text == json_dump(path)
    IN  [config_file |-> Written(text, written),
         printed |-> IF written = Len(text) THEN {} ELSE {"Error saving config: OSError"}]

\* __init__, lines 46-60: the default path, then load_config
YouTubeDownloaderOptimized_init(readable) ==
    /\ app = "closed"
    /\ LET r == load_config(DefaultPath, readable)
       IN  /\ download_path' = r.download_path
           /\ console' = r.printed
    /\ app' = "started"
    /\ UNCHANGED <<config_file, listvars, simplevars>>

\* __init__, lines 62-64: setup_gui and root.mainloop
setup_gui ==
    /\ app = "started"
    /\ app' = "running"
    /\ UNCHANGED <<download_path, config_file, console, listvars, simplevars>>

\* browse_path, lines 231-238: the chosen directory becomes the path and is saved
browse_path(path, written) ==
    /\ app = "running"
    /\ ui.pc = "idle"
    /\ LET text == json_dump(path)
           r == save_config(path, written)
       IN  /\ written <= Len(text)
           /\ download_path' = path
           /\ config_file' = r.config_file
           /\ console' = console \cup r.printed
    /\ UNCHANGED <<app, listvars, simplevars>>

\* cancel_all_downloads, lines 497-503, run to its end
CancelAll ==
    [a \in 1..Len(heap) |->
        IF (\E k \in 1..Len(videos) : videos[k] = a) /\ heap[a].status \in {"downloading", "paused"}
        THEN [heap[a] EXCEPT !.is_cancelled = TRUE, !.status = "cancelled"]
        ELSE heap[a]]

\* on_closing, lines 509-513: cancel_all_downloads, save_config, root.destroy
on_closing(written) ==
    /\ app = "running"
    /\ ui.pc = "idle"
    /\ heap' = CancelAll
    /\ LET text == json_dump(download_path)
           r == save_config(download_path, written)
       IN  /\ written <= Len(text)
           /\ config_file' = r.config_file
           /\ console' = console \cup r.printed
    /\ app' = "closed"
    /\ UNCHANGED <<download_path, videos, tree, dl, an, ui, uiq, overall_progress, btn,
                   errors, raises, simplevars>>

----------------------------------------------------------------------------
(* The simple variant, src/youtube_downloader.py (its last, complete class
   definition): load_config and save_config have no try, and the worker
   thread download_playlist writes to the widgets itself *)

IdleWorker == [pc |-> "none", exc |-> ""]

\* __init__, lines 190-203, with load_config, lines 208-213: an exception of
\* open() or json.load leaves __init__
YouTubeDownloader_init(readable) ==
    /\ app = "closed"
    /\ current_download.pc = "none"
    /\ is_downloading' = FALSE
    /\ current_download' = IdleWorker
    /\ status_label' = ""
    /\ console' = {}
    /\ IF ~config_file.exists
       THEN download_path' = DefaultPath /\ app' = "started"
       ELSE LET config == json_load(config_file.text)
            IN  IF ~readable \/ ~config.ok
                THEN download_path' = DefaultPath /\ app' = "crashed"
                ELSE /\ download_path' = IF config.has_key THEN config.value ELSE DefaultPath
                     /\ app' = "started"
    /\ UNCHANGED <<config_file, listvars>>

\* __init__, line 206: setup_gui, lines 221-254, which ends in root.mainloop
setup_gui_221 ==
    /\ app = "started"
    /\ app' = "running"
    /\ UNCHANGED <<download_path, config_file, console, listvars, simplevars>>

\* browse_path, lines 256-262: the path is not saved here
browse_path_256(path) ==
    /\ app = "running"
    /\ download_path' = path
    /\ UNCHANGED <<app, config_file, console, listvars, simplevars>>

\* start_download, lines 264-271 (UI thread)
start_download ==
    /\ app = "running"
    /\ IF is_downloading
       THEN UNCHANGED <<is_downloading, current_download>>
       ELSE /\ is_downloading' = TRUE
            /\ current_download' = [pc |-> "w275", exc |-> ""]
    /\ UNCHANGED <<status_label, configvars, listvars>>

\* download_playlist, lines 275-277: save_config, lines 215-219, on the worker
\* thread and outside the try: its exception ends the thread
download_playlist_275(written) ==
    /\ current_download.pc = "w275"
    /\ LET text == json_dump(download_path)
       IN  /\ written <= Len(text)
           /\ config_file' = Written(text, written)
           /\ current_download' = IF written = Len(text)
                                  THEN [current_download EXCEPT !.pc = "w278"]
                                  ELSE [pc |-> "none", exc |-> "OSError"]
    /\ UNCHANGED <<is_downloading, status_label, app, download_path, console, listvars>>

\* line 278: self.status_label.config(text="Downloading..."), on the worker
\* thread; TclError when the window has been destroyed
download_playlist_278 ==
    /\ current_download.pc = "w278"
    /\ IF app = "running"
       THEN /\ status_label' = "Downloading..."
            /\ current_download' = [current_download EXCEPT !.pc = "w288"]
       ELSE /\ status_label' = status_label
            /\ current_download' = [pc |-> "none", exc |-> "TclError"]
    /\ UNCHANGED <<is_downloading, configvars, listvars>>

\* lines 286-288: ydl.download([url]) returns or raises
download_playlist_288(raised) ==
    /\ current_download.pc = "w288"
    /\ current_download' = [current_download EXCEPT !.pc = IF raised THEN "w291" ELSE "w289"]
    /\ UNCHANGED <<is_downloading, status_label, configvars, listvars>>

\* line 289: self.status_label.config(text="Download completed!")
download_playlist_289 ==
    /\ current_download.pc = "w289"
    /\ IF app = "running"
       THEN /\ status_label' = "Download completed!"
            /\ current_download' = [current_download EXCEPT !.pc = "w294"]
       ELSE /\ status_label' = status_label
            /\ current_download' = [current_download EXCEPT !.pc = "w291"]
    /\ UNCHANGED <<is_downloading, configvars, listvars>>

\* lines 290-292: self.status_label.config(text="Error occurred!") and
\* messagebox.showerror; a TclError raised here leaves through the finally
download_playlist_291 ==
    /\ current_download.pc = "w291"
    /\ IF app = "running"
       THEN /\ status_label' = "Error occurred!"
            /\ current_download' = [current_download EXCEPT !.pc = "w294"]
       ELSE /\ status_label' = status_label
            /\ current_download' = [pc |-> "w294", exc |-> "TclError"]
    /\ UNCHANGED <<is_downloading, configvars, listvars>>

\* lines 293-294: finally: self.is_downloading = False; the thread ends
download_playlist_294 ==
    /\ current_download.pc = "w294"
    /\ is_downloading' = FALSE
    /\ current_download' = [current_download EXCEPT !.pc = "none"]
    /\ UNCHANGED <<status_label, configvars, listvars>>

\* on_closing, lines 296-299: save_config, then root.destroy; an exception of
\* save_config ends the callback before the window is destroyed
on_closing_296(written) ==
    /\ app = "running"
    /\ LET text == json_dump(download_path)
       IN  /\ written <= Len(text)
           /\ config_file' = Written(text, written)
           /\ app' = IF written = Len(text) THEN "closed" ELSE "running"
    /\ UNCHANGED <<download_path, console, listvars, simplevars>>

----------------------------------------------------------------------------
(* Initial states *)

\* an instance in state a on a machine without a configuration file
Installed(a) ==
    /\ app = a
    /\ download_path = DefaultPath
    /\ config_file = NoFile
    /\ console = {}
    /\ is_downloading = FALSE
    /\ current_download = IdleWorker
    /\ status_label = ""

\* __init__, lines 46-64, and the widgets of setup_gui (buttons at lines 158, 213, 219)
InitApp ==
    /\ videos = <<>>
    /\ heap = <<>>
    /\ tree = <<>>
    /\ dl = [t \in Threads |-> IdleThread]
    /\ an = [a \in Analyses |-> IdleAnalysis]
    /\ ui = IdleUi(0)
    /\ uiq = <<>>
    /\ overall_progress = 0
    /\ btn = [download_all |-> "disabled", pause_all |-> "disabled", cancel_all |-> "disabled"]
    /\ errors = 0
    /\ raises = {}
    /\ Installed("running")

\* the application after the analysis of a playlist of n videos with distinct ids
\* (_process_analysis_results, lines 292-341)
Loaded(n) ==
    /\ videos = [k \in 1..n |-> k]
    /\ heap = [k \in 1..n |-> VideoItem(IdOf(k))]
    /\ tree = [k \in 1..n |-> IdOf(k)]
    /\ dl = [t \in Threads |-> IdleThread]
    /\ an = [a \in Analyses |-> IdleAnalysis]
    /\ ui = IdleUi(0)
    /\ uiq = <<>>
    /\ overall_progress = 0
    /\ btn = [download_all |-> "normal", pause_all |-> "disabled", cancel_all |-> "disabled"]
    /\ errors = 0
    /\ Installed("running")

InitDownload ==
    /\ \E n \in 1..MaxVideos : Loaded(n)
    /\ raises = {}

DownloadThreadStep ==
    \E t \in Threads :
        \/ download_thread_371(t)
        \/ download_thread_374(t)
        \/ download_thread_375(t)
        \/ download_single_video_394(t)
        \/ download_single_video_395(t)
        \/ download_single_video_396(t)
        \/ video_progress_hook_423(t)
        \/ video_progress_hook_426(t)
        \/ video_progress_hook_429(t)
        \/ download_single_video_417(t)
        \/ download_single_video_418(t)
        \/ download_thread_382(t)
        \/ download_thread_387(t)

ControlStep ==
    \/ on_video_double_click
    \/ on_video_double_click_466
    \/ pause_video_473
    \/ pause_video_474
    \/ pause_video_475
    \/ resume_video_480
    \/ resume_video_481
    \/ resume_video_482
    \/ pause_all_downloads
    \/ pause_all_downloads_487
    \/ pause_all_downloads_488
    \/ cancel_all_downloads
    \/ cancel_all_downloads_499
    \/ cancel_all_downloads_500
    \/ cancel_all_downloads_501
    \/ cancel_all_downloads_502

CapabilityStep ==
    \/ \E t \in Threads, ev \in Events : ydl_download_hook(t, ev)
    \/ \E t \in Threads : ydl_download_return(t)
    \/ \E t \in Threads : ydl_download_raise(t)

QueueStep ==
    \/ run_overall_progress
    \/ run_loop_end

\* Download All pressed any number of times, the control surface left alone
NextParallel ==
    \/ download_all_videos
    \/ DownloadThreadStep
    \/ CapabilityStep
    \/ QueueStep

SpecParallel == InitDownload /\ [][NextParallel]_vars

\* one Download All run, with the control surface in use
NextControl ==
    \/ (download_all_videos /\ dl[1].pc = "none")
    \/ DownloadThreadStep
    \/ CapabilityStep
    \/ ControlStep
    \/ QueueStep

SpecControl == InitDownload /\ [][NextControl]_vars

\* the same, with the threads scheduled: a download thread that can take a step
\* takes one, the download capability goes on (it calls the hook, returns or
\* raises), and a handler the UI thread has begun runs to its end; the user is
\* not obliged to press anything
SpecControlFair ==
    /\ SpecControl
    /\ WF_vars(DownloadThreadStep)
    /\ WF_vars(CapabilityStep)
    /\ WF_vars(ControlStep /\ ui.pc # "idle")
    /\ WF_vars(QueueStep)


\* Analyze pressed any number of times, nothing downloaded
AnalysisStep ==
    \/ \E url \in {"", "https://www.youtube.com/playlist?list=PL"} : analyze_playlist(url)
    \/ \E a \in Analyses, info \in Infos : analyze_thread_281(a, info)
    \/ \E a \in Analyses : analyze_thread_284(a)
    \/ \E a \in Analyses : analyze_thread_287(a)
    \/ \E a \in Analyses : analyze_thread_287_end(a)
    \/ process_analysis_results_292
    \/ process_analysis_results_312
    \/ process_analysis_results_315
    \/ process_analysis_results_332
    \/ process_analysis_results_334
    \/ handle_analysis_error

SpecAnalysis == InitApp /\ [][AnalysisStep]_vars

\* one Download All run over a loaded list, with Analyze pressed meanwhile
\* (nothing disables the Analyze button while a download runs)
NextReanalysis ==
    \/ (download_all_videos /\ dl[1].pc = "none")
    \/ DownloadThreadStep
    \/ CapabilityStep
    \/ QueueStep
    \/ AnalysisStep

\* the application after the analysis thread of the first Analyze has loaded a
\* playlist of n videos and ended (lines 256-284, 292-341)
InitReanalysis ==
    /\ \E n \in 1..MaxVideos :
        /\ videos = [k \in 1..n |-> k]
        /\ heap = [k \in 1..n |-> VideoItem(IdOf(k))]
        /\ tree = [k \in 1..n |-> IdOf(k)]
    /\ dl = [t \in Threads |-> IdleThread]
    /\ an = [a \in Analyses |-> IF a = 1 THEN [pc |-> "done", info |-> NoEvent] ELSE IdleAnalysis]
    /\ ui = IdleUi(0)
    /\ uiq = <<>>
    /\ overall_progress = 0
    /\ btn = [download_all |-> "normal", pause_all |-> "disabled", cancel_all |-> "disabled"]
    /\ errors = 0
    /\ raises = {}
    /\ Installed("running")

SpecReanalysis == InitReanalysis /\ [][NextReanalysis]_vars

\* the optimized variant started, its path changed and closed any number of
\* times, on a machine that has no configuration file or one without the key
InitConfig ==
    /\ videos = <<>>
    /\ heap = <<>>
    /\ tree = <<>>
    /\ dl = [t \in Threads |-> IdleThread]
    /\ an = [a \in Analyses |-> IdleAnalysis]
    /\ ui = IdleUi(0)
    /\ uiq = <<>>
    /\ overall_progress = 0
    /\ btn = [download_all |-> "disabled", pause_all |-> "disabled", cancel_all |-> "disabled"]
    /\ errors = 0
    /\ raises = {}
    /\ app = "closed"
    /\ download_path = DefaultPath
    /\ config_file \in {NoFile, File(<<"{", "}">>)}
    /\ console = {}
    /\ is_downloading = FALSE
    /\ current_download = IdleWorker
    /\ status_label = ""

ConfigStep ==
    \/ \E readable \in BOOLEAN : YouTubeDownloaderOptimized_init(readable)
    \/ setup_gui
    \/ \E path \in Paths, written \in WriteOutcomes : browse_path(path, written)
    \/ \E written \in WriteOutcomes : on_closing(written)

SpecConfig == InitConfig /\ [][ConfigStep]_vars

\* the simple variant started, used and closed any number of times
SimpleStep ==
    \/ \E readable \in BOOLEAN : YouTubeDownloader_init(readable)
    \/ setup_gui_221
    \/ \E path \in Paths : browse_path_256(path)
    \/ start_download
    \/ \E written \in WriteOutcomes : download_playlist_275(written)
    \/ download_playlist_278
    \/ \E raised \in BOOLEAN : download_playlist_288(raised)
    \/ download_playlist_289
    \/ download_playlist_291
    \/ download_playlist_294
    \/ \E written \in WriteOutcomes : on_closing_296(written)

SpecSimple == InitConfig /\ [][SimpleStep]_vars

\* the whole application
Init == InitApp

Next ==
    \/ AnalysisStep
    \/ download_all_videos
    \/ DownloadThreadStep
    \/ CapabilityStep
    \/ ControlStep
    \/ QueueStep

Spec == Init /\ [][Next]_vars

----------------------------------------------------------------------------
(* One Download All run against a test double of the download capability:
   the download of the items at the positions in raises raises, every other
   download reports "finished" and returns; the control surface is left alone *)

InitMock ==
    \E n \in 1..MaxVideos :
        /\ Loaded(n)
        /\ raises \in SUBSET (1..n)

mock_hook(t, ev) ==
    /\ ydl_download_hook(t, ev)
    /\ dl[t].it \in raises \/ dl[t].fin \/ ev.status = "finished" \/ dl[t].n + 1 < MaxEvents

mock_return(t) ==
    /\ ydl_download_return(t)
    /\ dl[t].it \notin raises

mock_raise(t) ==
    /\ ydl_download_raise(t)
    /\ dl[t].it \in raises

NextMock ==
    \/ (download_all_videos /\ dl[1].pc = "none")
    \/ DownloadThreadStep
    \/ \E t \in Threads, ev \in Events : mock_hook(t, ev)
    \/ \E t \in Threads : mock_return(t)
    \/ \E t \in Threads : mock_raise(t)
    \/ QueueStep

SpecMock == InitMock /\ [][NextMock]_vars

----------------------------------------------------------------------------
(* Claims about the download threads and the control surface *)

\* C1: items are downloaded one at a time: at no moment are two calls to the
\* download capability in flight, also when Download All is pressed again while
\* a download loop is still running
C1_OneDownloadInFlight ==
    Cardinality({t \in Threads : InDownload(t)}) <= 1

\* C2: no two worker threads ever execute download_single_video (and its progress
\* callback) for the same VideoItem at the same time
C2_OneWriterPerItem ==
    \A t1, t2 \in Threads :
        (t1 # t2 /\ InSingle(t1) /\ InSingle(t2)) => dl[t1].video # dl[t2].video

\* C3: when the progress callback raised because the item's cancel flag was set,
\* the item's status once download_single_video has returned (and the cancel
\* handler has ended) is "cancelled"
C3_CancelledWhenReturned ==
    \A t \in Threads :
        (dl[t].pc = "c382" /\ dl[t].exc = "Download cancelled" /\ ui.pc = "idle")
            => heap[dl[t].video].status = "cancelled"

\* C4: a cancel flag set while the item's download is in flight is never cleared
\* before the worker observes it: it stays set as long as download_single_video
\* runs for the item, so the next callback invocation raises
C4_CancelFlagKept ==
    [][\A t \in Threads :
          (InSingle(t) /\ heap[dl[t].video].is_cancelled)
              => heap'[dl[t].video].is_cancelled]_vars

\* the step is one of thread t
StepOf(t) == dl'[t] # dl[t]

\* the item the event d is applied to at lines 429-445
Applied(v, d) == IF d.status = "finished" THEN OnFinished(v, d) ELSE OnDownloading(v, d)

\* a callback invocation that found the pause flag set keeps waiting and leaves
\* the item alone
Waits(t) ==
    /\ dl'[t].pc \in {"h423", "h426"}
    /\ StepOf(t) => heap'[dl[t].video] = heap[dl[t].video]

\* a callback invocation past the wait applies its event
Resumes(t) ==
    /\ (dl[t].pc = "h426" /\ ~heap[dl[t].video].is_paused /\ StepOf(t))
           => (dl'[t].pc = "h429" /\ heap' = heap)
    /\ (dl[t].pc = "h429" /\ StepOf(t))
           => (dl'[t].pc = "lib" /\ heap'[dl[t].video] = Applied(heap[dl[t].video], dl[t].d))

\* C5 as stated: while the pause flag is set a callback invocation blocks, neither
\* raising nor changing the item, until the flag is cleared; then it applies the
\* progress update
C5_PausedBlocks ==
    [][\A t \in Threads :
          /\ (dl[t].pc \in {"h423", "h426"} /\ heap[dl[t].video].is_paused) => Waits(t)
          /\ Resumes(t)]_vars

\* C5 amended: the same for an invocation that does not begin with the cancel
\* flag set; the cancel check of line 423 comes before the wait of line 426
C5_PausedBlocksUnlessCancelled ==
    [][\A t \in Threads :
          /\ (/\ dl[t].pc \in {"h423", "h426"}
              /\ heap[dl[t].video].is_paused
              /\ ~(dl[t].pc = "h423" /\ heap[dl[t].video].is_cancelled)) => Waits(t)
          /\ Resumes(t)]_vars

\* a callback invocation is waiting in the loop of line 426 on a paused item
C5_Witness ==
    \E t \in Threads :
        /\ dl[t].pc = "h426"
        /\ heap[dl[t].video].is_paused
        /\ heap[dl[t].video].status = "paused"
        /\ dl[t].d.status = "downloading"


----------------------------------------------------------------------------
(* Claims about one Download All run against the test double *)

\* the Download All loop has ended
LoopEnded == dl[1].pc = "done"

\* the overall progress reported last: the last value posted for the progress bar
OverallPosted == SelectSeq(uiq, LAMBDA cb : cb[1] = "overall")

LastReported ==
    IF OverallPosted = <<>> THEN overall_progress
    ELSE OverallPosted[Len(OverallPosted)][2]

\* C6: if the download of item k raises, the items before k are processed
\* normally, item k ends failed with a stored error message, and every item after
\* k is still handed to the download capability by the same loop
C6_FailureDoesNotStopLoop ==
    LoopEnded =>
        /\ \A k \in 1..Len(videos) :
             IF k \in raises
             THEN /\ heap[videos[k]].status = "failed"
                  /\ heap[videos[k]].error_message # ""
             ELSE heap[videos[k]].status = "completed"
        /\ dl[1].handed = videos

\* an item raised and the item after it was downloaded
C6_Witness ==
    /\ LoopEnded
    /\ \E k \in raises :
         /\ k < Len(videos)
         /\ k + 1 \notin raises
         /\ heap[videos[k]].status = "failed"
         /\ heap[videos[k + 1]].status = "completed"

----------------------------------------------------------------------------
(* Claims about the analysis *)

\* the step of _process_analysis_results that fills the list from a playlist
FillsFromPlaylist == ui.pc = "q312" /\ ui'.pc = "q315"

\* C8 as stated: for a playlist result the list gets one item per entry returned
\* by the extraction capability, item i for entry i
C8_OneItemPerEntry ==
    [][FillsFromPlaylist =>
          /\ Len(videos') = Len(ui.info.entries)
          /\ \A k \in 1..Len(videos') : heap'[videos'[k]].id = ui.info.entries[k].id]_vars

\* C8 amended: one item per entry that is not None and has an id, in the order
\* of those entries
C8_OneItemPerUsableEntry ==
    [][FillsFromPlaylist =>
          LET kept == SelectSeq(ui.info.entries, LAMBDA e : ~e.is_none /\ e.id # "")
          IN  /\ Len(videos') = Len(kept)
              /\ \A k \in 1..Len(videos') :
                    /\ heap'[videos'[k]].id = kept[k].id
                    /\ heap'[videos'[k]].status = "pending"]_vars

\* a playlist with an unusable entry has been converted
C8_Witness ==
    /\ ui.pc = "q315"
    /\ Len(ui.info.entries) = MaxVideos
    /\ Len(videos) = MaxVideos - 1
    /\ \E k \in 1..MaxVideos : ui.info.entries[k].is_none

\* C9: after any analysis no two items of the video list share an id
C9_UniqueIds ==
    \A i, j \in 1..Len(videos) :
        i # j => heap[videos[i]].id # heap[videos[j]].id

\* C10: when the extraction result is a single video, the analysis leaves exactly
\* one item, the single video's, in the list, whatever the list held before
C10_SingleVideoOneItem ==
    [][/\ (ui.pc = "q332" /\ ui'.pc = "q334") =>
             /\ Len(videos') = 1
             /\ heap'[videos'[1]].id = SingleId(ui.info)
       /\ (ui.pc = "q334" /\ ui'.pc = "idle") => videos' = videos]_vars

\* a single video has been analysed after a playlist had filled the list
C10_Witness ==
    /\ ui.pc = "q334"
    /\ ui.info.type = "video"
    /\ Len(videos) = 1
    /\ Len(heap) = MaxVideos + 1

\* the step of _process_analysis_results in which the conversion raises: info is
\* None at line 295, or a row insert of lines 315-319 is refused
ConversionFails ==
    \/ /\ ui.pc = "idle" /\ uiq # <<>> /\ uiq' = Tail(uiq)
       /\ Head(uiq)[1] = "process" /\ Head(uiq)[2].type = "none"
    \/ /\ ui.pc = "q315" /\ ui'.pc = "idle"
       /\ Len(tree') < Len(tree) + (Len(heap) - ui.i)

\* the items the handler running at q315 has created: the objects allocated after
\* the ui.i objects that existed before
ProducedByAttempt(a) == a > ui.i

\* C11: analysis is all-or-nothing: when an analysis attempt fails while its
\* results are converted, the video list holds no item produced by that attempt
C11_AllOrNothing ==
    [][ConversionFails =>
          /\ ui.pc = "idle" => videos' = <<>>
          /\ ui.pc = "q315" => \A k \in 1..Len(videos') : ~ProducedByAttempt(videos'[k])]_vars

\* the only analysis attempt so far has ended and its callback has run
FirstAttemptOver ==
    /\ an[1].pc = "done"
    /\ \A a \in Analyses : a > 1 => an[a].pc = "none"
    /\ uiq = <<>>
    /\ ui.pc = "idle"

\* C12: an analysis attempt that does not end with a populated video list ends
\* with the error dialog of _handle_analysis_error run on the UI thread
C12_ErrorShown ==
    (FirstAttemptOver /\ videos = <<>>) => errors = 1

----------------------------------------------------------------------------
(* Claims about the fields of a VideoItem *)

\* line 394 has been executed for the item: a download of it has been started
Started(a) ==
    \E t \in Threads :
        \/ \E k \in 1..Len(dl[t].handed) : dl[t].handed[k] = a
        \/ dl[t].video = a /\ dl[t].pc \in {"s395", "s396"}

\* C13: the status of every VideoItem is one of pending, downloading, paused,
\* completed, failed, cancelled, and an item is pending from its creation until
\* a download of it is started
C13_StatusDomain ==
    \A a \in 1..Len(heap) :
        /\ heap[a].status \in Statuses
        /\ ~Started(a) => heap[a].status = "pending"

\* one item has been paused while a later one has not been started
C13_Witness ==
    \E a, b \in 1..Len(heap) :
        /\ heap[a].status = "paused"
        /\ ~Started(b)
        /\ heap[b].status = "pending"

\* thread t's callback applies a "downloading" event in this step
AppliesDownloading(t) ==
    /\ dl[t].pc = "h429"
    /\ dl'[t].pc = "lib"
    /\ dl[t].d.status = "downloading"

\* the total size an event knows: total_bytes, else total_bytes_estimate, else 0
KnownTotal(d) ==
    IF d.total_bytes > 0 THEN d.total_bytes
    ELSE IF d.total_bytes_estimate > 0 THEN d.total_bytes_estimate
    ELSE 0

\* C14: on a "downloading" event the progress becomes downloaded / total (in
\* whole percent) when the total is known; when it is unknown the progress keeps
\* its value, and the byte counter, the speed and the ETA are updated all the same
C14_ProgressRecomputed ==
    [][\A t \in Threads :
          AppliesDownloading(t) =>
              LET d == dl[t].d
                  before == heap[dl[t].video]
                  after == heap'[dl[t].video]
                  total == KnownTotal(d)
              IN  /\ after.downloaded_bytes = d.downloaded_bytes
                  /\ after.speed # "" /\ after.eta # ""
                  /\ total > 0 =>
                        /\ after.progress * total <= d.downloaded_bytes * 100
                        /\ d.downloaded_bytes * 100 < (after.progress + 1) * total
                  /\ total = 0 => after.progress = before.progress]_vars

\* an event without a total has been applied to an item that was half way
C14_Witness ==
    \E t \in Threads :
        /\ dl[t].pc = "lib"
        /\ dl[t].n = 2
        /\ heap[dl[t].video].filesize = 0
        /\ heap[dl[t].video].downloaded_bytes = MaxBytes
        /\ heap[dl[t].video].progress = Percent(MaxBytes, FileSize)
        /\ heap[dl[t].video].progress > 0

----------------------------------------------------------------------------
(* Claims about the configuration *)

\* a fresh instance loads the configuration in this step (__init__, line 60)
LoadsFresh == app = "closed" /\ app' = "started"

\* C15: when save_config has written the configuration of an instance whose
\* download_path is p, load_config in a fresh instance that can read the file
\* yields download_path = p; when there is no configuration file, load_config
\* leaves download_path at the default
C15_RoundTrip ==
    [][LoadsFresh =>
          /\ (/\ config_file = File(json_dump(download_path))
              /\ "Error loading config: PermissionError" \notin console')
                 => download_path' = download_path
          /\ ~config_file.exists => download_path' = DefaultPath]_vars

\* a fresh instance has loaded a path made of the characters JSON escapes
C15_Witness ==
    /\ app = "started"
    /\ console = {}
    /\ download_path = <<"\\", "\"">>
    /\ config_file = File(json_dump(download_path))

----------------------------------------------------------------------------
(* Claims about pause and cancel while a download is in flight *)

\* C16: a pause flag set on an item whose download is running is not cleared by
\* the worker thread: no step of the worker inside download_single_video turns
\* the item's is_paused from true to false, so the next callback sees it
C16_PauseFlagKept ==
    [][\A t \in Threads :
          (InSingle(t) /\ StepOf(t) /\ heap[dl[t].video].is_paused)
              => heap'[dl[t].video].is_paused]_vars

\* Cancel All has marked item a while its download call is in flight
CancelledInFlight(a) ==
    /\ a <= Len(heap)
    /\ heap[a].is_cancelled
    /\ heap[a].status = "cancelled"
    /\ \E t \in Threads : InDownload(t) /\ dl[t].video = a

\* no download call is in flight for item a
TornDown(a) == \A t \in Threads : ~(InDownload(t) /\ dl[t].video = a)

\* C17: after Cancel All has marked the item whose download is in flight, in
\* whatever state the item was (paused included), the item's download call
\* eventually ends, so that the loop can go on to the items after it
C17_CancelTearsDown ==
    \A a \in 1..MaxVideos : CancelledInFlight(a) ~> TornDown(a)

----------------------------------------------------------------------------
(* Claims about the overall progress *)

\* thread t reports an overall progress in this step (line 385)
ReportsOverall(t) ==
    /\ dl[t].pc = "c382"
    /\ dl'[t].pc = "next"
    /\ Len(uiq') = Len(uiq) + 1

\* the items of the list whose status is completed
CompletedCount == Cardinality({k \in 1..Len(videos) : heap[videos[k]].status = "completed"})

\* C19: every overall progress the download loop reports equals, at the moment
\* it is reported, the number of items of the list whose status is completed
\* divided by the number of items of the list, as a percentage
C19_OverallIsCompletedShare ==
    [][\A t \in Threads :
          ReportsOverall(t) =>
              uiq'[Len(uiq')] = <<"overall", Percent(CompletedCount, Len(videos))>>]_vars

----------------------------------------------------------------------------
(* Claims about the threads and the widgets, and about configuration errors *)

\* the step is one of a worker thread: of the simple variant's download_playlist
\* thread, of a download thread or of an analysis thread
WorkerStep ==
    \/ current_download.pc # "none" /\ current_download' # current_download
    \/ \E t \in Threads : dl[t].pc # "none" /\ dl'[t] # dl[t]
    \/ \E a \in Analyses : an[a].pc # "none" /\ an'[a] # an[a]

\* C18: widgets are touched only from the UI thread: no step of a download or
\* analysis thread changes a label, a progress bar, a button, the rows of the
\* tree, or shows a dialog; a worker only queues such changes with root.after
C18_WidgetsOnUiThread ==
    [][WorkerStep =>
          UNCHANGED <<status_label, tree, overall_progress, btn, errors>>]_vars

\* C20: an error of reading, parsing or writing the configuration file does not
\* leave load_config / save_config: it neither ends the application at startup
\* nor ends the thread that was saving
C20_ErrorsSwallowed ==
    /\ app # "crashed"
    /\ current_download.exc # "OSError"

----------------------------------------------------------------------------
(* Claims about the order and the choice of the items of a Download All run *)

\* thread t's loop reaches an item that is completed or failed (line 375)
ReachesDone(t) ==
    /\ dl[t].pc = "chk375"
    /\ StepOf(t)
    /\ heap[dl[t].video].status \in {"completed", "failed"}

\* thread t's loop calls download_single_video in this step (line 380)
HandsOver(t) == dl[t].pc # "s394" /\ dl'[t].pc = "s394"

\* C21: the Download All loop does not hand an item to the download capability
\* when the item's status is completed or failed as the loop reaches it, and the
\* loop leaves every field of such an item as it is
C21_DoneItemsSkipped ==
    [][\A t \in Threads :
          /\ ReachesDone(t) =>
                /\ dl'[t].pc = "next"
                /\ dl'[t].handed = dl[t].handed
                /\ heap' = heap
          /\ HandsOver(t) => heap[dl[t].video].status \notin {"completed", "failed"}]_vars

\* a loop has passed over a failed first item without handing anything over
C21_Witness ==
    \E t \in Threads :
        /\ dl[t].pc = "next"
        /\ dl[t].it = 1
        /\ dl[t].handed = <<>>
        /\ heap[videos[1]].status = "failed"
        /\ heap[videos[1]].error_message # ""

\* s is l with some of its elements left out, the others in the order of l
RECURSIVE IsSubseq(_, _)
IsSubseq(s, l) ==
    IF s = <<>> THEN TRUE
    ELSE IF l = <<>> THEN FALSE
    ELSE IF Head(s) = Head(l) THEN IsSubseq(Tail(s), Tail(l))
    ELSE IsSubseq(s, Tail(l))

\* the loop of thread t is running (lines 374-385)
Running(t) == dl[t].pc \notin {"none", "len", "end", "done", "crashed"}

\* C22: while a Download All loop runs, the items it has handed to the download
\* capability so far are items of the video list, taken in list order, and none
\* of them was handed over twice
C22_StartedInListOrder ==
    \A t \in Threads :
        Running(t) =>
            /\ IsSubseq(dl[t].handed, videos)
            /\ \A i, j \in 1..Len(dl[t].handed) : dl[t].handed[i] = dl[t].handed[j] => i = j

\* C27: while a Download All loop runs, the item whose download is in flight is
\* an item of the current video list, whatever analysis is started meanwhile
C27_InFlightItemInList ==
    \A t \in Threads :
        InSingle(t) => \E k \in 1..Len(videos) : videos[k] = dl[t].video

----------------------------------------------------------------------------
(* Claims about the end of a download *)

\* the callback of thread t applies a "finished" event in this step (lines 441-445)
AppliesFinished(t) ==
    /\ dl[t].pc = "h429"
    /\ dl'[t].pc = "lib"
    /\ dl[t].d.status = "finished"

CallEnded(t, a) ==
    /\ \E k \in 1..Len(dl[t].handed) : dl[t].handed[k] = a
    /\ ~(InSingle(t) /\ dl[t].video = a)

\* C24: an item whose download call has ended is completed or failed, whatever
\* the control surface did meanwhile
C24_EndedDownloadSettled ==
    \A t \in Threads : \A a \in 1..Len(heap) :
        CallEnded(t, a) => heap[a].status \in {"completed", "failed"}

\* C25: whenever no handler of the control surface is under way, an item whose
\* pause flag is set has the status paused (so that resume_video, which acts on
\* that status, can clear the flag)
C25_PausedFlagMeansPaused ==
    ui.pc = "idle" =>
        \A a \in 1..Len(heap) : heap[a].is_paused => heap[a].status = "paused"

\* C26: an item whose status is completed has progress 100
C26_CompletedIsFull ==
    \A a \in 1..Len(heap) : heap[a].status = "completed" => heap[a].progress = 100

----------------------------------------------------------------------------
(* Claims about the simple variant's download guard *)

\* C28: in the running application, is_downloading is true only while a
\* download_playlist worker exists: once the worker has ended, however it ended,
\* the flag is false again and start_download is accepted
C28_FlagResetWhenWorkerEnds ==
    (app = "running" /\ current_download.pc = "none") => ~is_downloading

====
